---- MODULE Spec2Model ----
(***************************************************************************)
(* The two entry scripts of the YouTube crawler as one state machine.      *)
(*   "index" : src/index.ts            (metadata + comments)               *)
(*   "full"  : src/unnamed/part_000    (metadata + comments + captions)    *)
(* A step of the machine is one synchronous stretch of JavaScript: from    *)
(* the resumption of an await to the next await (or to the end).           *)
(* An optional value (undefined or a value) is a sequence of length <= 1.  *)
(***************************************************************************)
EXTENDS Integers, Sequences, FiniteSets, TLC

\* ---------------------------------------------------------------- bounds
MaxPages == 3
MaxPageLen == 2
MaxTarget == 3

\* ------------------------------------------------------------ data model
Scripts == {"index", "full"}

Undefined == <<>>
Some(v) == <<v>>

\* the raw items the commentThreads endpoint can serve (global.d.ts items)
RawA ==
  [id |-> "a",
   snippet |-> [topLevelComment |-> [snippet |->
                  [authorDisplayName |-> "ann", textDisplay |-> "<b>hi</b>",
                   publishedAt |-> "2024-01-01T00:00:00Z", likeCount |-> 0]],
                totalReplyCount |-> 0],
   replies |-> Undefined]

RawB ==
  [id |-> "b",
   snippet |-> [topLevelComment |-> [snippet |->
                  [authorDisplayName |-> "bob", textDisplay |-> "yo",
                   publishedAt |-> "2024-02-02T00:00:00Z", likeCount |-> 7]],
                totalReplyCount |-> 1],
   replies |-> Some([comments |-> <<"r1">>])]

RawItems == {RawA, RawB}

SeqsUpTo(S, n) == UNION {[1..k -> S] : k \in 0..n}

\* page tokens are opaque to the collector: the n-th page comes with no
\* token, with the empty string, or with a token naming the next page
TokenNames == <<"c1", "c2", "c3">>

PageTokens(n) ==
  {Undefined, Some(""), Some(TokenNames[((n - 1) % Len(TokenNames)) + 1])}

\* bodies of the n-th commentThreads response of a run
\*   "page"     : JSON with an items array and an optional nextPageToken
\*   "bad_json" : response.json() rejects
\*   "no_items" : JSON without an items array (the API's error object)
CommentBodies(n) ==
  {[kind |-> "page", items |-> s, nextPageToken |-> t] :
      s \in SeqsUpTo(RawItems, MaxPageLen), t \in PageTokens(n)}
  \cup {[kind |-> k, items |-> <<>>, nextPageToken |-> Undefined] :
          k \in {"bad_json", "no_items"}}

ErrorBody == [kind |-> "no_items", items |-> <<>>, nextPageToken |-> Undefined]

CommentResponses(n) ==
  {[status |-> 200, body |-> b] : b \in CommentBodies(n)}
  \cup {[status |-> 403, body |-> ErrorBody]}

\* response.ok of the fetch API: the status is in 200..299
ResponseOk(response) == response.status >= 200 /\ response.status <= 299

\* JavaScript truthiness of an optional string: `if (nextPageToken)`
Truthy(token) == token # Undefined /\ token # Some("")

\* Array.prototype.slice(start, end) on a sequence (0-based, end exclusive)
SliceIndex(i, len) ==
  IF i < 0 THEN (IF len + i < 0 THEN 0 ELSE len + i)
  ELSE (IF i > len THEN len ELSE i)

Slice(s, start, end) ==
  SubSeq(s, SliceIndex(start, Len(s)) + 1, SliceIndex(end, Len(s)))

\* data.items.map(...) of the two collectors
MapItemFull(item) ==
  [id |-> item.id,
   author |-> item.snippet.topLevelComment.snippet.authorDisplayName,
   text |-> item.snippet.topLevelComment.snippet.textDisplay,
   publishedAt |-> item.snippet.topLevelComment.snippet.publishedAt,
   likeCount |-> item.snippet.topLevelComment.snippet.likeCount]

\* mutant: the comment-only script stores the text as the author
MapItemIndexSwapped(item, data) ==
  [id |-> item.id,
   author |-> item.snippet.topLevelComment.snippet.textDisplay,
   text |-> item.snippet.topLevelComment.snippet.authorDisplayName,
   publishedAt |-> item.snippet.topLevelComment.snippet.publishedAt,
   likeCount |-> item.snippet.topLevelComment.snippet.likeCount,
   replyCount |-> item.snippet.totalReplyCount,
   replies |-> IF item.replies = Undefined THEN Undefined
               ELSE Some(item.replies[1].comments),
   nextPageToken |-> data.nextPageToken]

MapItemIndex(item, data) ==
  [id |-> item.id,
   author |-> item.snippet.topLevelComment.snippet.authorDisplayName,
   text |-> item.snippet.topLevelComment.snippet.textDisplay,
   publishedAt |-> item.snippet.topLevelComment.snippet.publishedAt,
   likeCount |-> item.snippet.topLevelComment.snippet.likeCount,
   replyCount |-> item.snippet.totalReplyCount,
   replies |-> IF item.replies = Undefined THEN Undefined
               ELSE Some(item.replies[1].comments),
   nextPageToken |-> data.nextPageToken]

MapItems(s, data) ==
  [i \in 1..Len(data.items) |->
     IF s = "index" THEN MapItemIndex(data.items[i], data)
     ELSE MapItemFull(data.items[i])]

\* bodies of a videos response
\*   "video"    : JSON whose items array holds the video
\*   "empty"    : JSON whose items array is missing or empty
\*   "bad_json" : response.json() rejects
VideoBodies == {[kind |-> k] : k \in {"video", "empty", "bad_json"}}

VideoResponses ==
  {[status |-> 200, body |-> b] : b \in VideoBodies}
  \cup {[status |-> 403, body |-> [kind |-> "empty"]]}

\* the IVideoInfo built from data.items[0] (tags default to the empty list)
VideoInfoOf(body) == [id |-> "vid", title |-> "t", tags |-> <<>>]

\* bodies of a captions response
CaptionBodies ==
  {[kind |-> "list", items |-> s] : s \in {<<>>, <<"en">>}}
  \cup {[kind |-> k, items |-> <<>>] : k \in {"bad_json", "no_items"}}

CaptionResponses ==
  {[status |-> 200, body |-> b] : b \in CaptionBodies}
  \cup {[status |-> 403, body |-> [kind |-> "no_items", items |-> <<>>]]}

\* data.items.map(...) of fetchCaptionsList
MapCaptions(items) ==
  [i \in 1..Len(items) |->
     [id |-> items[i], language |-> items[i], isAutoGenerated |-> FALSE]]

\* the .srt files yt-dlp can leave in the output directory, as name parts:
\* <<"vid","en","srt">> is vid.en.srt
SrtFiles == {<<"vid", "en", "srt">>, <<"vid", "srt">>}

\* file.match(/\.([^.]+)\.srt$/): the part before .srt when a dot precedes it
LangOf(file) == IF Len(file) >= 3 THEN file[Len(file) - 1] ELSE "unknown"

\* outcomes of the yt-dlp step: the subprocess fails, or it succeeds and the
\* read loop stores the files it reads before a read error (if any)
YtDlpOutcomes ==
  {[ok |-> FALSE, read |-> {}]}
  \cup {[ok |-> TRUE, read |-> fs] : fs \in SUBSET SrtFiles}

\* ------------------------------------------------------- control operators
\* mutant: the loop tests <= instead of <
LoopCondInclusive(len, target) == len <= target

\* while (comments.length < targetCount)
LoopCond(len, target) == len < target

\* mutant: the loop also ends while nothing has been accumulated
BreakOnNoProgress(token, len, target) ==
  ~Truthy(token) \/ len >= target \/ len = 0

\* mutant: the loop ends on the count alone
BreakOnCountOnly(token, len, target) == len >= target

\* if (!nextPageToken || comments.length >= targetCount) break
BreakCond(token, len, target) == ~Truthy(token) \/ len >= target

\* mutant: a new page is put in front of the accumulated items
SpreadPrepend(acc, newComments) == newComments \o acc

\* mutant: items whose id is already accumulated are dropped
SpreadUnique(acc, newComments) ==
  acc \o SelectSeq(newComments,
                  LAMBDA c : \A i \in 1..Len(acc) : acc[i].id # c.id)

\* comments = [...comments, ...newComments]
Spread(acc, newComments) == acc \o newComments

\* mutant: the final truncation is missing
TruncateNone(acc, target) == acc

\* if (comments.length > targetCount) comments = comments.slice(0, targetCount)
Truncate(acc, target) ==
  IF Len(acc) > target THEN Slice(acc, 0, target) ELSE acc

\* mutant: the pageToken parameter is never sent
PageTokenParamNone(token) == Undefined

\* if (nextPageToken) params.append("pageToken", nextPageToken)
PageTokenParam(token) == IF Truthy(token) THEN token ELSE Undefined

\* mutants: a catch block with the other policy
CollectorCatchReturn(acc) == [throws |-> FALSE, value |-> Some(acc)]

VideoInfoCatchSwallow ==
  [throws |-> FALSE, value |-> Some([id |-> "", title |-> "", tags |-> <<>>])]

CaptionsListCatchThrow == [throws |-> TRUE, value |-> Undefined]

YtDlpCatchThrow == [throws |-> TRUE, value |-> Undefined]

\* catch blocks: what the function does with an error raised inside it
\*   throws = TRUE : the error is rethrown to the caller
\*   throws = FALSE: the function returns value
CollectorCatch(acc) == [throws |-> TRUE, value |-> Undefined]

VideoInfoCatch == [throws |-> TRUE, value |-> Undefined]

CaptionsListCatch == [throws |-> FALSE, value |-> Some(<<>>)]

\* Record<string, string> with no key
EmptyMapping == [l \in {} |-> ""]

YtDlpCatch == [throws |-> FALSE, value |-> Some(EmptyMapping)]

\* the read loop: captionContents[lang] = content for each file read
ContentsOf(read) == [l \in {LangOf(f) : f \in read} |-> "srt"]

\* exit status once an error has left fetchVideoData
\*   full : catch { process.exit(1) }
\*   index: .catch(console.error), the process then ends normally
TopLevelCatch(s) == IF s = "full" THEN 1 ELSE 0

\* JSON.stringify of a comment: a property whose value is undefined is left out
Stringify(c) ==
  IF "replies" \in DOMAIN c
    THEN [k \in (DOMAIN c)
                 \ ((IF c.replies = Undefined THEN {"replies"} ELSE {})
                    \cup (IF c.nextPageToken = Undefined
                            THEN {"nextPageToken"} ELSE {})) |->
            IF k \in {"replies", "nextPageToken"} THEN c[k][1] ELSE c[k]]
    ELSE c

StringifyAll(cs) == [i \in 1..Len(cs) |-> Stringify(cs[i])]

\* ------------------------------------------------------------------ state
VARIABLES
  script,          \* which entry script runs
  id,              \* process.env.id is set
  apiKey,          \* process.env.key is set
  targetCount,     \* targetCount of fetchCommentsUntilCount
  pc,              \* the await the run is suspended at, or "main" / "exited"
  comments,        \* fetchCommentsUntilCount: let comments
  nextPageToken,   \* fetchCommentsUntilCount: let nextPageToken
  videoInfo,       \* fetchVideoData: const videoInfo (optional)
  fvdComments,     \* fetchVideoData: const comments (optional)
  captions,        \* fetchVideoData: const captions (optional)
  captionContents, \* fetchVideoData: const captionContents (optional)
  files,           \* JSON files written: name -> content
  thrown,          \* the function whose error left fetchVideoData (optional)
  exitCode,        \* exit status of the process (optional)
  log,             \* history: calls, delays and writes, in the order started
  responses,       \* history: responses to the commentThreads requests
  infoResponse,    \* history: response to the videos request (optional)
  captionsResponse,\* history: response to the captions request (optional)
  ytdlpOutcome,    \* history: outcome of the yt-dlp step (optional)
  trace            \* log and responses keep the whole run (TRUE) or only
                   \* the last response (FALSE)

vars ==
  <<script, id, apiKey, targetCount, pc, comments, nextPageToken, videoInfo,
    fvdComments, captions, captionContents, files, thrown, exitCode, log,
    responses, infoResponse, captionsResponse, ytdlpOutcome, trace>>

TargetCounts == (0 - 1)..MaxTarget

Event(op, arg) == [op |-> op, arg |-> arg]

NoFiles == [n \in {} |-> <<>>]

Start ==
  /\ script \in Scripts
  /\ id \in BOOLEAN
  /\ apiKey \in BOOLEAN
  /\ targetCount \in TargetCounts
  /\ pc = "main"
  /\ comments = <<>>
  /\ nextPageToken = Undefined
  /\ videoInfo = Undefined
  /\ fvdComments = Undefined
  /\ captions = Undefined
  /\ captionContents = Undefined
  /\ files = NoFiles
  /\ thrown = Undefined
  /\ exitCode = Undefined
  /\ log = <<>>
  /\ responses = <<>>
  /\ infoResponse = Undefined
  /\ captionsResponse = Undefined
  /\ ytdlpOutcome = Undefined

Init == Start /\ trace = TRUE

\* the same program, observed without the growing histories
InitLive == Start /\ trace = FALSE

\* ---------------------------------------------------------------- helpers
cfg == <<script, id, apiKey, targetCount, trace>>

\* the histories after new events / a new response
Log(events) == IF trace THEN log \o events ELSE log

Record(r) == IF trace THEN Append(responses, r) ELSE <<r>>

Writes(names) == [i \in 1..Len(names) |-> Event("write", Some(names[i]))]

\* an error leaves fetchVideoData (its catch rethrows) and reaches the top
\* level; the locals of the functions it unwinds are gone
Propagate(origin) ==
  /\ pc' = "exited"
  /\ thrown' = Some(origin)
  /\ exitCode' = Some(TopLevelCatch(script))
  /\ comments' = <<>>
  /\ nextPageToken' = Undefined
  /\ UNCHANGED <<fvdComments, files, log>>

\* index.ts 171-186: write the two files; the process then ends normally
WriteIndex(result) ==
  /\ files' = ("videoInfo.json" :> videoInfo'[1])
              @@ ("comments.json" :> StringifyAll(result))
  /\ log' = Log(Writes(<<"videoInfo.json", "comments.json">>))
  /\ pc' = "exited"
  /\ exitCode' = Some(0)

\* mutant: fetchVideoData writes comments.json as soon as the collector
\* returns, before the caption steps
ReturnWritingEarly(result) ==
  /\ fvdComments' = Some(result)
  /\ comments' = <<>>
  /\ nextPageToken' = Undefined
  /\ thrown' = thrown
  /\ IF script = "index"
       THEN WriteIndex(result)
       ELSE /\ pc' = "fetchCaptionsList"
            /\ files' = ("comments.json" :> StringifyAll(result))
            /\ log' = Log(Writes(<<"comments.json">>)
                           \o <<Event("captions", Undefined)>>)
            /\ UNCHANGED exitCode

\* fetchCommentsUntilCount returns result to fetchVideoData, which goes on to
\* its next statement: the writes (index) or fetchCaptionsList (full)
Return(result) ==
  /\ fvdComments' = Some(result)
  /\ comments' = <<>>
  /\ nextPageToken' = Undefined
  /\ thrown' = thrown
  /\ IF script = "index"
       THEN WriteIndex(result)
       ELSE /\ pc' = "fetchCaptionsList"
            /\ log' = Log(<<Event("captions", Undefined)>>)
            /\ UNCHANGED <<files, exitCode>>

\* mutant: the randomized delay is not taken
BeforeFetchNothing == <<>>

\* await new Promise(resolve => setTimeout(resolve, 800 + Math.random() * 200))
BeforeFetch == <<Event("randomDelay", Undefined)>>

\* the head of the while loop with the locals acc and token
LoopHead(acc, token) ==
  IF LoopCond(Len(acc), targetCount)
    THEN /\ pc' = "randomDelay"
         /\ comments' = acc
         /\ nextPageToken' = token
         /\ log' = Log(BeforeFetch)
         /\ UNCHANGED <<fvdComments, files, thrown, exitCode>>
    ELSE Return(Truncate(acc, targetCount))

\* ---------------------------------------------------------------- actions
\* mutant: fetchCaptionsList is started without awaiting fetchVideoInfo
StartEventsConcurrent ==
  <<Event("mkdir", Undefined), Event("videos", Undefined),
    Event("captions", Undefined)>>

\* fetchVideoData up to its first await: mkdirSync, then fetchVideoInfo
StartEvents == <<Event("mkdir", Undefined), Event("videos", Undefined)>>

\* the main IIFE of part_000 / the last statement of index.ts
Main ==
  /\ pc = "main"
  /\ IF script = "full" /\ (~id \/ ~apiKey)
       THEN /\ pc' = "exited"
            /\ exitCode' = Some(1)
            /\ log' = log
       ELSE /\ pc' = "fetchVideoInfo"
            /\ exitCode' = exitCode
            /\ log' = Log(StartEvents)
  /\ UNCHANGED <<cfg, comments, nextPageToken, videoInfo, fvdComments,
                 captions, captionContents, files, thrown, responses,
                 infoResponse, captionsResponse, ytdlpOutcome>>

\* fetchVideoInfo resumes with the response; fetchVideoData then calls
\* fetchCommentsUntilCount, which runs to its first await
FetchVideoInfoRespond ==
  /\ pc = "fetchVideoInfo"
  /\ \E r \in VideoResponses :
       /\ infoResponse' = Some(r)
       /\ LET failed == ~(ResponseOk(r) /\ r.body.kind = "video")
              c == VideoInfoCatch
          IN  IF failed /\ c.throws
                THEN /\ videoInfo' = videoInfo
                     /\ Propagate("fetchVideoInfo")
                ELSE /\ videoInfo' = IF failed THEN c.value
                                     ELSE Some(VideoInfoOf(r.body))
                     /\ LoopHead(<<>>, Undefined)
  /\ UNCHANGED <<cfg, captions, captionContents, responses,
                 captionsResponse, ytdlpOutcome>>

\* the randomized delay ends: the commentThreads request is sent
RandomDelayDone ==
  /\ pc = "randomDelay"
  /\ trace => Len(responses) < MaxPages
  /\ pc' = "fetchComments"
  /\ log' = Log(<<Event("commentThreads", PageTokenParam(nextPageToken))>>)
  /\ UNCHANGED <<cfg, comments, nextPageToken, videoInfo, fvdComments,
                 captions, captionContents, files, thrown, exitCode,
                 responses, infoResponse, captionsResponse, ytdlpOutcome>>

\* the commentThreads response arrives: lines 101-132 of index.ts,
\* 219-247 of part_000
FetchCommentsRespond ==
  /\ pc = "fetchComments"
  /\ UNCHANGED <<cfg, videoInfo, captions, captionContents, infoResponse,
                 captionsResponse, ytdlpOutcome>>
  /\ \E r \in CommentResponses(Len(responses) + 1) :
       /\ responses' = Record(r)
       /\ IF ResponseOk(r) /\ r.body.kind = "page"
            THEN LET acc == Spread(comments, MapItems(script, r.body))
                     token == r.body.nextPageToken
                 IN  IF BreakCond(token, Len(acc), targetCount)
                       THEN Return(Truncate(acc, targetCount))
                       ELSE /\ pc' = "fixedDelay"
                            /\ comments' = acc
                            /\ nextPageToken' = token
                            /\ log' = Log(<<Event("fixedDelay", Undefined)>>)
                            /\ UNCHANGED <<fvdComments, files, thrown,
                                           exitCode>>
            ELSE LET c == CollectorCatch(comments)
                 IN  IF c.throws
                       THEN Propagate("fetchCommentsUntilCount")
                       ELSE Return(c.value[1])

\* the fixed delay ends: back to the head of the loop
FixedDelayDone ==
  /\ pc = "fixedDelay"
  /\ UNCHANGED <<cfg, videoInfo, captions, captionContents, responses,
                 infoResponse, captionsResponse, ytdlpOutcome>>
  /\ LoopHead(comments, nextPageToken)

\* the captions response arrives; fetchVideoData then starts yt-dlp
FetchCaptionsListRespond ==
  /\ pc = "fetchCaptionsList"
  /\ \E r \in CaptionResponses :
       /\ captionsResponse' = Some(r)
       /\ LET failed == ~(ResponseOk(r) /\ r.body.kind = "list")
              c == CaptionsListCatch
          IN  IF failed /\ c.throws
                THEN /\ Propagate("fetchCaptionsList")
                     /\ captions' = captions
                ELSE /\ captions' = IF failed THEN c.value
                                    ELSE Some(MapCaptions(r.body.items))
                     /\ pc' = "ytdlp"
                     /\ log' = Log(<<Event("yt-dlp", Undefined)>>)
                     /\ UNCHANGED <<comments, nextPageToken, fvdComments,
                                    files, thrown, exitCode>>
  /\ UNCHANGED <<cfg, videoInfo, captionContents, responses, infoResponse,
                 ytdlpOutcome>>

\* mutant: only the consolidated file is written
WriteFullConsolidatedOnly(cc) ==
  /\ files' = ("full_data.json" :> [captionContents |-> cc])
  /\ log' = Log(Writes(<<"full_data.json">>))
  /\ pc' = "exited"
  /\ exitCode' = Some(0)
  /\ UNCHANGED <<comments, nextPageToken, fvdComments, thrown>>

\* part_000 297-341: the writes of fetchVideoData; the process then ends
WriteFull(cc) ==
  LET fullData ==
        [videoInfo |-> videoInfo[1],
         comments |-> StringifyAll(fvdComments[1]),
         captions |-> captions[1],
         captionContents |-> cc,
         metadata |-> [crawledAt |-> "now",
                       totalComments |-> Len(fvdComments[1]),
                       totalCaptions |-> Len(captions[1]),
                       totalCaptionContents |-> Cardinality(DOMAIN cc)]]
      nonEmpty == Cardinality(DOMAIN cc) > 0
  IN  /\ files' = ("video_info.json" :> videoInfo[1])
                  @@ ("comments.json" :> StringifyAll(fvdComments[1]))
                  @@ ("captions_list.json" :> captions[1])
                  @@ (IF nonEmpty THEN "captions_content.json" :> cc
                      ELSE NoFiles)
                  @@ ("full_data.json" :> fullData)
      /\ log' = Log(Writes(<<"video_info.json", "comments.json",
                              "captions_list.json">>)
                     \o (IF nonEmpty THEN Writes(<<"captions_content.json">>)
                         ELSE <<>>)
                     \o Writes(<<"full_data.json">>))
      /\ pc' = "exited"
      /\ exitCode' = Some(0)
      /\ UNCHANGED <<comments, nextPageToken, fvdComments, thrown>>

\* yt-dlp ends and the .srt files are read; fetchVideoData then writes
YtDlpRespond ==
  /\ pc = "ytdlp"
  /\ \E o \in YtDlpOutcomes :
       /\ ytdlpOutcome' = Some(o)
       /\ LET c == YtDlpCatch
          IN  IF ~o.ok /\ c.throws
                THEN /\ Propagate("downloadCaptionsWithYtDlp")
                     /\ captionContents' = captionContents
                ELSE LET cc == IF o.ok THEN ContentsOf(o.read)
                               ELSE c.value[1]
                     IN  /\ captionContents' = Some(cc)
                         /\ WriteFull(cc)
  /\ UNCHANGED <<cfg, videoInfo, captions, responses, infoResponse,
                 captionsResponse>>

Next ==
  \/ Main
  \/ FetchVideoInfoRespond
  \/ RandomDelayDone
  \/ FetchCommentsRespond
  \/ FixedDelayDone
  \/ FetchCaptionsListRespond
  \/ YtDlpRespond

Spec == Init /\ [][Next]_vars

\* every pending call or delay eventually completes
SpecLive == InitLive /\ [][Next]_vars /\ WF_vars(Next)

\* ------------------------------------------------- reading the histories
\* a commentThreads response the collector accepts as a page
OkPage(r) == r.status \in 200..299 /\ r.body.kind = "page"

\* the cursor of a page is absent: no token, or the empty token
Absent(token) == token = Undefined \/ token = Some("")

RECURSIVE FetchedUpTo(_)
\* the items of the first n responses, mapped, in fetch order
FetchedUpTo(n) ==
  IF n = 0 THEN <<>>
  ELSE FetchedUpTo(n - 1)
       \o (IF OkPage(responses[n])
             THEN MapItems(script, responses[n].body) ELSE <<>>)

Fetched == FetchedUpTo(Len(responses))

FirstN(s, n) == [i \in 1..n |-> s[i]]

Min(a, b) == IF a < b THEN a ELSE b

EventsOf(ops) == {i \in 1..Len(log) : log[i].op \in ops}

AllOk == \A i \in 1..Len(responses) : OkPage(responses[i])

CollectorReturned == fvdComments # Undefined

CollectorFailed == \E i \in 1..Len(responses) : ~OkPage(responses[i])

LastToken == responses[Len(responses)].body.nextPageToken

\* C1: with targetCount >= 0 and no fetch failing, the returned sequence has
\* length min(targetCount, T), T the number of items in the pages up to and
\* including the first page without a cursor. When the last page fetched
\* still carries a cursor, T is at least the number of items fetched, which
\* is at least targetCount.
C1_LengthLaw ==
  (CollectorReturned /\ targetCount >= 0 /\ AllOk) =>
    IF responses = <<>> THEN Len(fvdComments[1]) = 0
    ELSE /\ \A i \in 1..(Len(responses) - 1) :
              ~Absent(responses[i].body.nextPageToken)
         /\ IF Absent(LastToken)
              THEN Len(fvdComments[1]) = Min(targetCount, Len(Fetched))
              ELSE /\ Len(fvdComments[1]) = targetCount
                   /\ Len(Fetched) >= targetCount

\* three pages, the third without a cursor, fewer items than targetCount
C1_Witness ==
  /\ CollectorReturned /\ AllOk
  /\ Len(responses) = 3
  /\ LastToken = Undefined
  /\ Len(Fetched) > 0
  /\ Len(Fetched) < targetCount
  /\ Len(fvdComments[1]) = Len(Fetched)

\* C2: when the pages fetched hold more than targetCount items, the result
\* is the first targetCount items of their concatenation in fetch order,
\* repeated items kept.
C2_TruncationLaw ==
  (CollectorReturned /\ Len(Fetched) > targetCount) =>
    fvdComments[1] = FirstN(Fetched, targetCount)

\* two pages overshoot targetCount and the same item arrives on both
C2_Witness ==
  /\ CollectorReturned
  /\ Len(responses) = 2
  /\ Len(Fetched) > targetCount
  /\ Len(fvdComments[1]) = 2
  /\ fvdComments[1][1] = fvdComments[1][2]
  /\ Len(responses[1].body.items) = 1

\* C3: a page is requested only while fewer than targetCount items are
\* accumulated and the previous page (if any) carried a cursor; the last page
\* requested is the first one after which the cursor is absent or the count
\* is reached.
C3_TerminationLaw ==
  /\ pc \in {"randomDelay", "fetchComments"} =>
       /\ Len(Fetched) < targetCount
       /\ AllOk
       /\ responses # <<>> => ~Absent(LastToken)
  /\ \A i \in 1..(Len(responses) - 1) :
       /\ OkPage(responses[i])
       /\ ~Absent(responses[i].body.nextPageToken)
       /\ Len(FetchedUpTo(i)) < targetCount
  /\ (CollectorReturned /\ responses # <<>>) =>
       \/ Absent(LastToken)
       \/ Len(Fetched) >= targetCount
  /\ Cardinality(EventsOf({"commentThreads"})) =
       Len(responses) + (IF pc = "fetchComments" THEN 1 ELSE 0)

\* the count is reached on page 2 while a cursor is still present
C3_Witness ==
  /\ CollectorReturned
  /\ Len(responses) = 2
  /\ LastToken = Some("c2")
  /\ Len(Fetched) > targetCount
  /\ pc = "exited"

\* C4: with targetCount <= 0 the collector sends no request, waits for no
\* delay and returns the empty sequence.
C4_NoWorkAtZero ==
  targetCount <= 0 =>
    /\ EventsOf({"commentThreads", "randomDelay", "fixedDelay"}) = {}
    /\ responses = <<>>
    /\ videoInfo # Undefined => fvdComments = Some(<<>>)

C4_Witness ==
  /\ targetCount < 0
  /\ fvdComments = Some(<<>>)
  /\ pc = "exited"

\* C5: a failed page fetch is the last request of the run: no retry, no
\* further page, no result, and the error reaches the caller.
C5_FailureAborts ==
  \A i \in 1..Len(responses) :
    ~OkPage(responses[i]) =>
      /\ i = Len(responses)
      /\ Cardinality(EventsOf({"commentThreads"})) = i
      /\ fvdComments = Undefined
      /\ thrown = Some("fetchCommentsUntilCount")
      /\ pc = "exited"

\* page 2 answers 200 with a body that has no items array
C5_Witness ==
  /\ Len(responses) = 2
  /\ responses[2].status = 200
  /\ responses[2].body.kind = "no_items"
  /\ thrown = Some("fetchCommentsUntilCount")

InfoFailed ==
  /\ infoResponse # Undefined
  /\ ~(infoResponse[1].status \in 200..299
       /\ infoResponse[1].body.kind = "video")

CaptionsFailed ==
  /\ captionsResponse # Undefined
  /\ ~(captionsResponse[1].status \in 200..299
       /\ captionsResponse[1].body.kind = "list")

YtDlpFailed == ytdlpOutcome # Undefined /\ ~ytdlpOutcome[1].ok

Written == DOMAIN files

\* C6 as stated: when page k >= 2 fails, fetchVideoData still holds the
\* items of pages 1..k-1.
C6_CallerKeepsItems ==
  (CollectorFailed /\ Len(responses) >= 2 /\ pc = "exited") =>
    fvdComments = Some(Fetched)

\* C6 amended: when page k >= 2 fails, the items of pages 1..k-1 are gone
\* with the collector's locals: fetchVideoData's comments is never bound,
\* only the error reaches it, and no file is written.
C6_ItemsDiscarded ==
  (CollectorFailed /\ Len(responses) >= 2) =>
    /\ fvdComments = Undefined
    /\ comments = <<>>
    /\ thrown = Some("fetchCommentsUntilCount")
    /\ Written = {}

\* page 2 answers 403 after page 1 delivered items
C6_Witness ==
  /\ Len(responses) = 2
  /\ responses[2].status = 403
  /\ Len(Fetched) > 0
  /\ pc = "exited"
  /\ fvdComments = Undefined

\* C7: after a failed metadata fetch no comment page, caption list or
\* yt-dlp call is issued; after a failed comment collection no caption list
\* or yt-dlp call is issued; in both cases no file is written and the error
\* reaches the top level.
C7_HardFail ==
  /\ InfoFailed =>
       /\ EventsOf({"randomDelay", "commentThreads", "captions", "yt-dlp",
                    "write"}) = {}
       /\ Written = {}
       /\ thrown = Some("fetchVideoInfo")
       /\ pc = "exited"
  /\ CollectorFailed =>
       /\ EventsOf({"captions", "yt-dlp", "write"}) = {}
       /\ Written = {}
       /\ thrown = Some("fetchCommentsUntilCount")
       /\ pc = "exited"

\* the full script: the comment collection fails on its second page
C7_Witness ==
  /\ script = "full"
  /\ CollectorFailed
  /\ Len(responses) = 2
  /\ Len(Fetched) > 0
  /\ pc = "exited"

\* C8: a failed caption listing does not abort the run: yt-dlp is started,
\* captions is the empty list, and the run ends with the fetched metadata
\* and comments written and an empty caption list in both files.
C8_CaptionListSoftFail ==
  CaptionsFailed =>
    /\ captions = Some(<<>>)
    /\ thrown = Undefined
    /\ EventsOf({"yt-dlp"}) # {}
    /\ pc \in {"ytdlp", "exited"}
    /\ pc = "exited" =>
         /\ exitCode = Some(0)
         /\ {"video_info.json", "comments.json", "captions_list.json",
             "full_data.json"} \subseteq Written
         /\ files["video_info.json"] = VideoInfoOf(infoResponse[1].body)
         /\ files["comments.json"] = fvdComments[1]
         /\ fvdComments[1] = FirstN(Fetched, Min(targetCount, Len(Fetched)))
         /\ files["captions_list.json"] = <<>>
         /\ files["full_data.json"].captions = <<>>
         /\ files["full_data.json"].comments = fvdComments[1]
         /\ files["full_data.json"].videoInfo
              = VideoInfoOf(infoResponse[1].body)

\* the caption listing answers 403 and the run ends with comments written
C8_Witness ==
  /\ CaptionsFailed
  /\ captionsResponse[1].status = 403
  /\ pc = "exited"
  /\ Len(files["comments.json"]) = 2

\* C9: a failed yt-dlp run gives the empty mapping and the run ends
\* successfully with metadata, comments, caption list and the consolidated
\* record written, the record holding an empty mapping and a count of 0.
C9_YtDlpSoftFail ==
  YtDlpFailed =>
    /\ captionContents = Some(EmptyMapping)
    /\ thrown = Undefined
    /\ pc = "exited"
    /\ exitCode = Some(0)
    /\ {"video_info.json", "comments.json", "captions_list.json",
        "full_data.json"} \subseteq Written
    /\ files["comments.json"] = fvdComments[1]
    /\ files["captions_list.json"] = captions[1]
    /\ files["full_data.json"].captionContents = EmptyMapping
    /\ files["full_data.json"].metadata.totalCaptionContents = 0

\* yt-dlp fails after a caption track was listed
C9_Witness ==
  /\ YtDlpFailed
  /\ Len(captions[1]) = 1
  /\ Len(fvdComments[1]) > 0
  /\ pc = "exited"

\* C10 as stated: for every entry script, the exit status is non-zero
\* exactly when the configuration is incomplete or the metadata fetch or the
\* comment collection failed.
C10_ExitStatus ==
  pc = "exited" =>
    IF ~id \/ ~apiKey \/ InfoFailed \/ CollectorFailed
      THEN exitCode # Some(0)
      ELSE exitCode = Some(0)

NetworkOps == {"videos", "commentThreads", "captions", "yt-dlp"}

\* C11 as stated: with the API key or the video id missing, the run ends
\* with a configuration error before any network call or yt-dlp run.
C11_ConfigFirst ==
  (~id \/ ~apiKey) =>
    /\ EventsOf(NetworkOps) = {}
    /\ pc \in {"main", "exited"}
    /\ pc = "exited" => exitCode = Some(1)

FullRunSucceeded == script = "full" /\ pc = "exited" /\ exitCode = Some(0)

\* C12 as stated: a successful run of the full script has written the five
\* files, also when the caption-content mapping is empty.
C12_FiveFiles ==
  FullRunSucceeded =>
    {"video_info.json", "comments.json", "captions_list.json",
     "captions_content.json", "full_data.json"} \subseteq Written

\* C12 amended: a successful run of the full script has written
\* video_info.json, comments.json, captions_list.json and full_data.json
\* (combining the four parts with a metadata block); captions_content.json
\* is written exactly when the caption-content mapping is not empty.
C12_FilesWritten ==
  FullRunSucceeded =>
    /\ {"video_info.json", "comments.json", "captions_list.json",
        "full_data.json"} \subseteq Written
    /\ "captions_content.json" \in Written
         <=> captionContents[1] # EmptyMapping
    /\ "captions_content.json" \in Written
         => files["captions_content.json"] = captionContents[1]
    /\ DOMAIN files["full_data.json"]
         = {"videoInfo", "comments", "captions", "captionContents",
            "metadata"}
    /\ files["full_data.json"].captionContents = captionContents[1]
    /\ files["video_info.json"] = videoInfo[1]
    /\ files["captions_list.json"] = captions[1]

\* yt-dlp succeeds, no .srt file is read, and the run ends successfully
C12_Witness ==
  /\ FullRunSucceeded
  /\ ytdlpOutcome[1].ok
  /\ captionContents = Some(EmptyMapping)
  /\ "captions_content.json" \notin Written
  /\ "full_data.json" \in Written

\* the commentThreads requests sent so far, in order
Requests == SelectSeq(log, LAMBDA e : e.op = "commentThreads")

InLoop == pc \in {"randomDelay", "fetchComments", "fixedDelay"}

\* C13: a page with no items and a cursor does not end the loop while fewer
\* than targetCount items are accumulated: the next request carries that
\* cursor; before targetCount is reached only a page without cursor ends
\* the loop.
C13_EmptyPageContinues ==
  /\ \A i \in 1..Len(responses) :
       ( /\ OkPage(responses[i])
         /\ responses[i].body.items = <<>>
         /\ ~Absent(responses[i].body.nextPageToken)
         /\ Len(FetchedUpTo(i)) < targetCount )
       => /\ ~(i = Len(responses) /\ CollectorReturned)
          /\ i = Len(responses) =>
               /\ InLoop
               /\ nextPageToken = responses[i].body.nextPageToken
          /\ Len(Requests) > i =>
               Requests[i + 1].arg = responses[i].body.nextPageToken
  /\ (CollectorReturned /\ Len(Fetched) < targetCount) =>
       (responses # <<>> /\ Absent(LastToken))

\* the first page is empty with a cursor and a second request follows
C13_Witness ==
  /\ Len(responses) >= 2
  /\ responses[1].body.kind = "page"
  /\ responses[1].body.items = <<>>
  /\ responses[1].body.nextPageToken = Some("c1")
  /\ Requests[2].arg = Some("c1")
  /\ CollectorReturned

\* C14: the first request of a run carries no pageToken, and request k+1
\* carries the token returned with page k.
C14_CursorThreading ==
  /\ Len(Requests) >= 1 => Requests[1].arg = Undefined
  /\ \A k \in 1..(Len(Requests) - 1) :
       /\ k <= Len(responses)
       /\ Requests[k + 1].arg = responses[k].body.nextPageToken
       /\ Requests[k + 1].arg # Undefined

\* three requests: none, then c1, then c2
C14_Witness ==
  /\ Len(Requests) = 3
  /\ Requests[1].arg = Undefined
  /\ Requests[2].arg = Some("c1")
  /\ Requests[3].arg = Some("c2")
  /\ Len(responses) = 3

Count(opt) == IF opt = Undefined THEN 0 ELSE 1

\* calls started and not yet completed
InFlight ==
  Cardinality(EventsOf(NetworkOps))
  - (Count(infoResponse) + Len(responses) + Count(captionsResponse)
     + Count(ytdlpOutcome))

Rank(op) ==
  CASE op = "videos" -> 1
    [] op = "commentThreads" -> 2
    [] op = "captions" -> 3
    [] op = "yt-dlp" -> 4

\* C15: at most one network call or yt-dlp run is in flight, none while a
\* delay is pending, and the calls of a run start in the order videos,
\* commentThreads pages, captions, yt-dlp, each after the one before it has
\* completed.
C15_Sequential ==
  /\ InFlight \in {0, 1}
  /\ pc \in {"randomDelay", "fixedDelay", "exited", "main"} => InFlight = 0
  /\ \A i, j \in EventsOf(NetworkOps) :
       i < j => /\ Rank(log[i].op) <= Rank(log[j].op)
                /\ log[i].op = log[j].op => log[i].op = "commentThreads"
  /\ EventsOf({"commentThreads"}) # {} => infoResponse # Undefined
  /\ \A k \in 1..Len(Requests) : Len(responses) >= k - 1
  /\ EventsOf({"captions"}) # {} =>
       /\ CollectorReturned
       /\ Len(responses) = Len(Requests)
  /\ EventsOf({"yt-dlp"}) # {} => captionsResponse # Undefined

\* the full script ran to its end with two commentThreads requests
C15_Witness ==
  /\ script = "full"
  /\ pc = "exited"
  /\ Len(Requests) = 2
  /\ Cardinality(EventsOf(NetworkOps)) = 5
  /\ ytdlpOutcome # Undefined

\* the delays and requests of the collector, in order
CollectorEvents ==
  SelectSeq(log,
            LAMBDA e : e.op \in {"randomDelay", "commentThreads",
                                 "fixedDelay"})

CollectorEnded == CollectorReturned \/ CollectorFailed

\* C16: the collector's delays and requests follow the pattern
\* (randomized delay, request, fixed delay) repeated: every request comes
\* right after a randomized delay, one fixed and one randomized delay lie
\* between two consecutive requests, and the last event of an ended run is
\* a request, with no fixed delay after it.
C16_Pacing ==
  /\ \A i \in 1..Len(CollectorEvents) :
       CollectorEvents[i].op =
         CASE i % 3 = 1 -> "randomDelay"
           [] i % 3 = 2 -> "commentThreads"
           [] i % 3 = 0 -> "fixedDelay"
  /\ CollectorEnded =>
       (CollectorEvents = <<>> \/ Len(CollectorEvents) % 3 = 2)
  /\ pc = "fetchComments" => Len(CollectorEvents) % 3 = 2
  /\ (CollectorEnded /\ targetCount > 0) => CollectorEvents # <<>>

\* two pages were fetched and the collector returned
C16_Witness ==
  /\ CollectorReturned
  /\ Len(responses) = 2
  /\ Len(CollectorEvents) = 5
  /\ CollectorEvents[4].op = "randomDelay"
  /\ CollectorEvents[3].op = "fixedDelay"

\* C17: inside the loop the accumulated sequence is the concatenation of
\* the pages fetched so far, each page's items in page order after those of
\* the pages before it, so every page extends it at the end; the final
\* truncation keeps a prefix of it.
C17_AppendOnly ==
  /\ InLoop => comments = Fetched
  /\ \A i \in 1..Len(responses) :
       OkPage(responses[i]) =>
         FetchedUpTo(i) = FetchedUpTo(i - 1)
                          \o MapItems(script, responses[i].body)
  /\ CollectorReturned =>
       /\ Len(fvdComments[1]) <= Len(Fetched)
       /\ fvdComments[1] = FirstN(Fetched, Len(fvdComments[1]))

\* two pages, each with a different item, are accumulated in fetch order
C17_Witness ==
  /\ pc = "fixedDelay"
  /\ Len(responses) = 2
  /\ Len(comments) = 2
  /\ comments[1].id = "a"
  /\ comments[2].id = "b"
  /\ Len(responses[1].body.items) = 1

\* the last page received had no items and carried a cursor, so the loop
\* goes on with nothing gained
EmptyCursorPage ==
  /\ pc = "fixedDelay"
  /\ responses # <<>>
  /\ OkPage(responses[Len(responses)])
  /\ responses[Len(responses)].body.items = <<>>

\* C18 as stated: when every call and delay completes, a started collector
\* run eventually returns or fails, whatever the endpoint answers.
C18_AlwaysEnds == InLoop ~> ~InLoop

\* C18: when every call and delay completes, a started collector run
\* eventually returns or fails, or else it receives, again and again, a page
\* with zero items and a cursor: such pages are the only way a run goes on
\* forever.
C18_EndsUnlessEmptyPages == InLoop ~> (~InLoop \/ EmptyCursorPage)

\* a second page in a row came back with zero items and a cursor, and the
\* collector is about to request the next one
C18_Witness ==
  /\ ~trace
  /\ pc = "randomDelay"
  /\ targetCount > 0
  /\ responses # <<>>
  /\ OkPage(responses[1])
  /\ responses[1].body.items = <<>>
  /\ nextPageToken = Some(TokenNames[2])
  /\ Len(comments) < targetCount

WriteEvents == EventsOf({"write"})

CoreFields == {"id", "author", "text", "publishedAt", "likeCount"}

\* C19: every call and delay of a run starts before the first write, and
\* when a file is written the sub-collections of the script have completed
\* (metadata and comments; in the full script also the caption listing and
\* yt-dlp); no file name is written twice; comments.json and the comments
\* and totalComments of full_data.json are the sequence the collector
\* returned, item by item.
C19_WriteOnce ==
  /\ \A w \in WriteEvents :
       \A e \in 1..Len(log) : log[e].op # "write" => e < w
  /\ WriteEvents # {} =>
       /\ pc = "exited"
       /\ InFlight = 0
       /\ infoResponse # Undefined
       /\ CollectorReturned
       /\ AllOk
       /\ script = "full" =>
            captionsResponse # Undefined /\ ytdlpOutcome # Undefined
  /\ \A i, j \in WriteEvents : log[i].arg = log[j].arg => i = j
  /\ {log[w].arg[1] : w \in WriteEvents} = Written
  /\ "comments.json" \in Written =>
       /\ fvdComments[1] = Truncate(Fetched, targetCount)
       /\ files["comments.json"] = StringifyAll(fvdComments[1])
       /\ Len(files["comments.json"]) = Len(fvdComments[1])
       /\ \A i \in 1..Len(fvdComments[1]) : \A f \in CoreFields :
            files["comments.json"][i][f] = fvdComments[1][i][f]
  /\ "full_data.json" \in Written =>
       /\ files["full_data.json"].comments = files["comments.json"]
       /\ files["full_data.json"].metadata.totalComments
            = Len(fvdComments[1])

\* the full script wrote its five files after two pages and both caption
\* steps
C19_Witness ==
  /\ script = "full"
  /\ pc = "exited"
  /\ Cardinality(WriteEvents) = 5
  /\ Len(responses) = 2
  /\ Len(fvdComments[1]) = 2
  /\ Len(files["comments.json"]) = 2
  /\ files["full_data.json"].metadata.totalComments = 2

RECURSIVE Loop(_, _, _, _, _, _, _)
\* fetchCommentsUntilCount of script s from the head of its while loop, with
\* acc accumulated, cursor token, the requests reqs sent and n responses of
\* rs consumed. It ends "returned" with the result, "failed" when a fetch
\* fails, or "pending" when the request after the last response of rs is out.
Loop(s, rs, target, acc, token, reqs, n) ==
  IF ~LoopCond(Len(acc), target)
    THEN [state |-> "returned", result |-> Truncate(acc, target),
          requests |-> reqs, pages |-> n]
    ELSE LET sent == Append(reqs, PageTokenParam(token))
         IN  IF n = Len(rs)
               THEN [state |-> "pending", result |-> acc,
                     requests |-> sent, pages |-> n]
               ELSE LET r == rs[n + 1]
                    IN  IF ResponseOk(r) /\ r.body.kind = "page"
                          THEN LET grown == Spread(acc, MapItems(s, r.body))
                                   next == r.body.nextPageToken
                               IN  IF BreakCond(next, Len(grown), target)
                                     THEN [state |-> "returned",
                                           result |-> Truncate(grown, target),
                                           requests |-> sent,
                                           pages |-> n + 1]
                                     ELSE Loop(s, rs, target, grown, next,
                                               sent, n + 1)
                          ELSE IF CollectorCatch(acc).throws
                                 THEN [state |-> "failed", result |-> <<>>,
                                       requests |-> sent, pages |-> n + 1]
                                 ELSE [state |-> "returned",
                                       result |-> CollectorCatch(acc).value[1],
                                       requests |-> sent, pages |-> n + 1]

\* the pageToken parameter of each request sent, in order
RequestCursors == [i \in 1..Len(Requests) |-> Requests[i].arg]

\* the collector of script s run against the endpoint answers rs
Collect(s, rs, target) == Loop(s, rs, target, <<>>, Undefined, <<>>, 0)

\* C20: against the answers the endpoint gave in this run and with the same
\* targetCount, the collector of index.ts and the collector of part_000 send
\* the same requests with the same cursors, consume the same number of
\* pages, end the same way (returned, failed on the same fetch, or waiting
\* for the same response) and hold sequences of the same length that agree
\* position by position on id, author, text, publishedAt and likeCount; the
\* collector that ran is one of the two.
C20_Equivalent ==
  LET a == Collect("index", responses, targetCount)
      b == Collect("full", responses, targetCount)
      mine == Collect(script, responses, targetCount)
  IN  /\ a.requests = b.requests
      /\ a.pages = b.pages
      /\ a.state = b.state
      /\ Len(a.result) = Len(b.result)
      /\ \A i \in 1..Len(a.result) : \A f \in CoreFields :
           a.result[i][f] = b.result[i][f]
      /\ CollectorReturned =>
           /\ mine.state = "returned"
           /\ fvdComments = Some(mine.result)
           /\ RequestCursors = mine.requests
           /\ mine.pages = Len(responses)
      /\ CollectorFailed =>
           /\ mine.state = "failed"
           /\ RequestCursors = mine.requests
           /\ mine.pages = Len(responses)
      /\ pc = "fetchComments" =>
           /\ mine.state = "pending"
           /\ comments = mine.result
           /\ RequestCursors = mine.requests

\* the comment-only script returned two items from two pages; the other
\* collector, on the same answers, returns two items without the extra
\* fields
C20_Witness ==
  /\ script = "index"
  /\ CollectorReturned
  /\ Len(responses) = 2
  /\ Len(fvdComments[1]) = 2
  /\ RequestCursors = <<Undefined, Some(TokenNames[1])>>
  /\ Collect("full", responses, targetCount).result # fvdComments[1]
  /\ Len(Collect("full", responses, targetCount).result) = 2

====
